---- MODULE Spec2Model ----
(***************************************************************************)
(* Model of td/telegram/PhotoSize.cpp: dimension validation, minithumbnail *)
(* reconstruction, the photo-size, animation-size and web-document         *)
(* decoders, and the PhotoSize comparison operators.                       *)
(*                                                                         *)
(* Every function of the file is synchronous and keeps no state of its own,*)
(* so a behaviour is one call: the initial state holds the arguments       *)
(* (pc = "call"), the action of the called function computes the result    *)
(* and the calls it makes on its collaborators (pc = "done").              *)
(* Strings and byte buffers are sequences of byte values 0..255.           *)
(***************************************************************************)
EXTENDS Integers, Sequences, FiniteSets, Bags, TLC

VARIABLES
  pc,     \* "call": the arguments are bound; "done": the function returned; "abort": a CHECK failed
  args,   \* the arguments of the call
  ret,    \* the returned value
  calls   \* the calls made on FileManager / parse_url, in program order

vars == <<pc, args, ret, calls>>

(* The value of `ret` before the function returns. *)
NoResult == [pending |-> TRUE]

(***************************************************************************)
(* Bounds of the model.                                                    *)
(***************************************************************************)
MaxDimSample == 2    \* get_dimensions is tried on 0..MaxDimSample besides the edge values
MaxSize == 1         \* PhotoSize.size of a compared descriptor ranges over 0..MaxSize
MaxFileId == 1       \* PhotoSize.file_id of a compared descriptor ranges over 0..MaxFileId
MaxPackedLen == 4    \* longest packed minithumbnail
MaxScans == 3        \* longest photoSizeProgressive.sizes_
MaxScan == 2         \* scan sizes range over 0..MaxScan
MaxHandle == 2       \* the registrar answers with a FileId in 0..MaxHandle

(***************************************************************************)
(* Dimensions: get_dimension, get_dimensions, get_pixel_count.             *)
(***************************************************************************)
UINT16_MAX == 65535

get_dimension_off_by_one(size) ==
  IF size < 0 \/ size >= UINT16_MAX THEN 0 ELSE size

get_dimension(size) ==
  IF size < 0 \/ size > UINT16_MAX THEN 0 ELSE size

get_dimensions(width, height) ==
  LET w == get_dimension(width)
      h == get_dimension(height)
  IN  IF w = 0 \/ h = 0
        THEN [width |-> 0, height |-> 0]
        ELSE [width |-> w, height |-> h]

(* Default-constructed Dimensions. *)
Dimensions0 == [width |-> 0, height |-> 0]

(* x * y for uint16 x, y as the two base-65536 digits <<high, low>> of the  *)
(* uint32 product (TLC's integers are 32-bit signed: 65535 * 65535 does not *)
(* fit them, and it fits uint32).                                           *)
WideMul(x, y) ==
  LET a == x \div 256
      b == x % 256
      ay == a * y
      by == b * y
      low == (ay % 256) * 256 + by
  IN  << ((ay \div 256) + (low \div 65536)) % 65536, low % 65536 >>

get_pixel_count(dimensions) ==
  WideMul(dimensions.width, dimensions.height)

(* `<` on two uint32 values held as <<high, low>>. *)
UInt32Less(p, q) == p[1] < q[1] \/ (p[1] = q[1] /\ p[2] < q[2])

(***************************************************************************)
(* PhotoSize: type, dimensions, size, file_id (FileId as its id; 0 is the  *)
(* default, invalid one), progressive_sizes.                               *)
(***************************************************************************)
PhotoSize0 ==
  [type |-> 0, dimensions |-> Dimensions0, size |-> 0, file_id |-> 0,
   progressive_sizes |-> <<>>]

is_valid(file_id) == file_id > 0

PhotoSizeEq(lhs, rhs) ==
  /\ lhs.type = rhs.type
  /\ lhs.dimensions = rhs.dimensions
  /\ lhs.size = rhs.size
  /\ lhs.file_id = rhs.file_id
  /\ lhs.progressive_sizes = rhs.progressive_sizes

(* 't' *)
CharT == 116

(* operator< with the pixel count compared before the size. *)
PhotoSizeLess_pixels_first(lhs, rhs) ==
  LET lhs_pixels == get_pixel_count(lhs.dimensions)
      rhs_pixels == get_pixel_count(rhs.dimensions)
      lhs_type == IF lhs.type = CharT THEN -1 ELSE lhs.type
      rhs_type == IF rhs.type = CharT THEN -1 ELSE rhs.type
  IN  IF lhs_pixels # rhs_pixels THEN UInt32Less(lhs_pixels, rhs_pixels)
      ELSE IF lhs.size # rhs.size THEN lhs.size < rhs.size
      ELSE IF lhs_type # rhs_type THEN lhs_type < rhs_type
      ELSE IF lhs.file_id # rhs.file_id THEN lhs.file_id < rhs.file_id
      ELSE lhs.dimensions.width < rhs.dimensions.width

(* operator< ending in `<=`. *)
PhotoSizeLess_or_equal(lhs, rhs) ==
  LET lhs_pixels == get_pixel_count(lhs.dimensions)
      rhs_pixels == get_pixel_count(rhs.dimensions)
      lhs_type == IF lhs.type = CharT THEN -1 ELSE lhs.type
      rhs_type == IF rhs.type = CharT THEN -1 ELSE rhs.type
  IN  IF lhs.size # rhs.size THEN lhs.size < rhs.size
      ELSE IF lhs_pixels # rhs_pixels THEN UInt32Less(lhs_pixels, rhs_pixels)
      ELSE IF lhs_type # rhs_type THEN lhs_type < rhs_type
      ELSE IF lhs.file_id # rhs.file_id THEN lhs.file_id < rhs.file_id
      ELSE lhs.dimensions.width <= rhs.dimensions.width

(* operator< without the file_id key. *)
PhotoSizeLess_no_file_id(lhs, rhs) ==
  LET lhs_pixels == get_pixel_count(lhs.dimensions)
      rhs_pixels == get_pixel_count(rhs.dimensions)
      lhs_type == IF lhs.type = CharT THEN -1 ELSE lhs.type
      rhs_type == IF rhs.type = CharT THEN -1 ELSE rhs.type
  IN  IF lhs.size # rhs.size THEN lhs.size < rhs.size
      ELSE IF lhs_pixels # rhs_pixels THEN UInt32Less(lhs_pixels, rhs_pixels)
      ELSE IF lhs_type # rhs_type THEN lhs_type < rhs_type
      ELSE lhs.dimensions.width < rhs.dimensions.width

PhotoSizeLess(lhs, rhs) ==
  LET lhs_pixels == get_pixel_count(lhs.dimensions)
      rhs_pixels == get_pixel_count(rhs.dimensions)
      lhs_type == IF lhs.type = CharT THEN -1 ELSE lhs.type
      rhs_type == IF rhs.type = CharT THEN -1 ELSE rhs.type
  IN  IF lhs.size # rhs.size THEN lhs.size < rhs.size
      ELSE IF lhs_pixels # rhs_pixels THEN UInt32Less(lhs_pixels, rhs_pixels)
      ELSE IF lhs_type # rhs_type THEN lhs_type < rhs_type
      ELSE IF lhs.file_id # rhs.file_id THEN lhs.file_id < rhs.file_id
      ELSE lhs.dimensions.width < rhs.dimensions.width

(***************************************************************************)
(* get_minithumbnail_object.  `header` and `footer` are the decoded base64 *)
(* constants of the function.                                              *)
(***************************************************************************)
header ==
  << 255, 216, 255, 224, 0, 16, 74, 70, 73, 70, 0, 1, 1, 0, 0, 1, 0, 1, 0, 0, 255, 219, 0, 67,
     0, 40, 28, 30, 35, 30, 25, 40, 35, 33, 35, 45, 43, 40, 48, 60, 100, 65, 60, 55, 55, 60, 123, 88,
     93, 73, 100, 145, 128, 153, 150, 143, 128, 140, 138, 160, 180, 230, 195, 160, 170, 218, 173, 138, 140, 200, 255, 203,
     218, 238, 245, 255, 255, 255, 155, 193, 255, 255, 255, 250, 255, 230, 253, 255, 248, 255, 219, 0, 67, 1, 43, 45,
     45, 60, 53, 60, 118, 65, 65, 118, 248, 165, 140, 165, 248, 248, 248, 248, 248, 248, 248, 248, 248, 248, 248, 248,
     248, 248, 248, 248, 248, 248, 248, 248, 248, 248, 248, 248, 248, 248, 248, 248, 248, 248, 248, 248, 248, 248, 248, 248,
     248, 248, 248, 248, 248, 248, 248, 248, 248, 248, 248, 248, 248, 248, 255, 192, 0, 17, 8, 0, 0, 0, 0, 3,
     1, 34, 0, 2, 17, 1, 3, 17, 1, 255, 196, 0, 31, 0, 0, 1, 5, 1, 1, 1, 1, 1, 1, 0,
     0, 0, 0, 0, 0, 0, 0, 1, 2, 3, 4, 5, 6, 7, 8, 9, 10, 11, 255, 196, 0, 181, 16, 0,
     2, 1, 3, 3, 2, 4, 3, 5, 5, 4, 4, 0, 0, 1, 125, 1, 2, 3, 0, 4, 17, 5, 18, 33,
     49, 65, 6, 19, 81, 97, 7, 34, 113, 20, 50, 129, 145, 161, 8, 35, 66, 177, 193, 21, 82, 209, 240, 36,
     51, 98, 114, 130, 9, 10, 22, 23, 24, 25, 26, 37, 38, 39, 40, 41, 42, 52, 53, 54, 55, 56, 57, 58,
     67, 68, 69, 70, 71, 72, 73, 74, 83, 84, 85, 86, 87, 88, 89, 90, 99, 100, 101, 102, 103, 104, 105, 106,
     115, 116, 117, 118, 119, 120, 121, 122, 131, 132, 133, 134, 135, 136, 137, 138, 146, 147, 148, 149, 150, 151, 152, 153,
     154, 162, 163, 164, 165, 166, 167, 168, 169, 170, 178, 179, 180, 181, 182, 183, 184, 185, 186, 194, 195, 196, 197, 198,
     199, 200, 201, 202, 210, 211, 212, 213, 214, 215, 216, 217, 218, 225, 226, 227, 228, 229, 230, 231, 232, 233, 234, 241,
     242, 243, 244, 245, 246, 247, 248, 249, 250, 255, 196, 0, 31, 1, 0, 3, 1, 1, 1, 1, 1, 1, 1, 1,
     1, 0, 0, 0, 0, 0, 0, 1, 2, 3, 4, 5, 6, 7, 8, 9, 10, 11, 255, 196, 0, 181, 17, 0,
     2, 1, 2, 4, 4, 3, 4, 7, 5, 4, 4, 0, 1, 2, 119, 0, 1, 2, 3, 17, 4, 5, 33, 49,
     6, 18, 65, 81, 7, 97, 113, 19, 34, 50, 129, 8, 20, 66, 145, 161, 177, 193, 9, 35, 51, 82, 240, 21,
     98, 114, 209, 10, 22, 36, 52, 225, 37, 241, 23, 24, 25, 26, 38, 39, 40, 41, 42, 53, 54, 55, 56, 57,
     58, 67, 68, 69, 70, 71, 72, 73, 74, 83, 84, 85, 86, 87, 88, 89, 90, 99, 100, 101, 102, 103, 104, 105,
     106, 115, 116, 117, 118, 119, 120, 121, 122, 130, 131, 132, 133, 134, 135, 136, 137, 138, 146, 147, 148, 149, 150, 151,
     152, 153, 154, 162, 163, 164, 165, 166, 167, 168, 169, 170, 178, 179, 180, 181, 182, 183, 184, 185, 186, 194, 195, 196,
     197, 198, 199, 200, 201, 202, 210, 211, 212, 213, 214, 215, 216, 217, 218, 226, 227, 228, 229, 230, 231, 232, 233, 234,
     242, 243, 244, 245, 246, 247, 248, 249, 250, 255, 218, 0, 12, 3, 1, 0, 2, 17, 3, 17, 0, 63, 0 >>

footer == << 255, 217 >>

(* s[i] and s.substr(pos), s.substr(pos, n) with the 0-based positions of the source. *)
At(s, i) == s[i + 1]

substr_from(s, pos) == SubSeq(s, pos + 1, Len(s))

substr(s, pos, n) ==
  SubSeq(s, pos + 1, IF pos + n < Len(s) THEN pos + n ELSE Len(s))

(* td_api::object_ptr<td_api::minithumbnail>: nullptr, or the object. *)
nullptr == [is_null |-> TRUE, height_ |-> 0, width_ |-> 0, data_ |-> <<>>]

get_minithumbnail_object_swapped(packed) ==
  IF Len(packed) < 3 THEN nullptr
  ELSE IF At(packed, 0) = 1
    THEN [is_null |-> FALSE,
          height_ |-> At(packed, 1),
          width_  |-> At(packed, 2),
          data_   |-> substr(header, 0, 164) \o << At(packed, 2) >> \o << At(header, 165) >>
                      \o << At(packed, 1) >> \o substr_from(header, 167)
                      \o substr_from(packed, 3) \o footer]
    ELSE nullptr

get_minithumbnail_object(packed) ==
  IF Len(packed) < 3 THEN nullptr
  ELSE IF At(packed, 0) = 1
    THEN [is_null |-> FALSE,
          height_ |-> At(packed, 1),
          width_  |-> At(packed, 2),
          data_   |-> substr(header, 0, 164) \o << At(packed, 1) >> \o << At(header, 165) >>
                      \o << At(packed, 2) >> \o substr_from(header, 167)
                      \o substr_from(packed, 3) \o footer]
    ELSE nullptr

(***************************************************************************)
(* PhotoFormat and the file name extension operator<< writes for it.       *)
(***************************************************************************)
PhotoFormat == {"Jpeg", "Png", "Webp", "Gif", "Tgs", "Mpeg4", "Webm"}

PhotoFormatName(format) ==
  CASE format = "Jpeg"  -> "jpg"
    [] format = "Png"   -> "png"
    [] format = "Webp"  -> "webp"
    [] format = "Gif"   -> "gif"
    [] format = "Tgs"   -> "tgs"
    [] format = "Mpeg4" -> "mp4"
    [] format = "Webm"  -> "webm"

(***************************************************************************)
(* register_photo_size: the one call it makes, FileManager::register_remote*)
(* on the FullRemoteFileLocation built from its arguments.  `file_id` is   *)
(* what the registrar answers.                                             *)
(***************************************************************************)
register_photo_size(source, id, access_hash, file_reference, owner_dialog_id, file_size, dc_id, format, file_id) ==
  [fn |-> "register_remote",
   location |-> [source |-> source, id |-> id, access_hash |-> access_hash,
                 dc_id |-> dc_id, file_reference |-> file_reference],
   file_location_source |->
     IF owner_dialog_id.type = "SecretChat" THEN "FromUser" ELSE "FromServer",
   owner_dialog_id |-> owner_dialog_id,
   size |-> file_size,
   expected_size |-> 0,
   name |-> [unique_name_of |-> <<source, id>>, extension |-> PhotoFormatName(format)],
   result |-> file_id]

set_content(file_id, bytes) ==
  [fn |-> "set_content", file_id |-> file_id, bytes |-> bytes]

(***************************************************************************)
(* std::sort on a vector<int32>.                                           *)
(***************************************************************************)
RECURSIVE SortInsert(_, _)
SortInsert(x, s) ==
  IF s = <<>> THEN << x >>
  ELSE IF x <= Head(s) THEN << x >> \o s
  ELSE << Head(s) >> \o SortInsert(x, Tail(s))

RECURSIVE SortAscending(_)
SortAscending(s) ==
  IF s = <<>> THEN <<>> ELSE SortInsert(Head(s), SortAscending(Tail(s)))

sort_forgotten(s) == s

sort(s) == SortAscending(s)

back(s) == s[Len(s)]

pop_back(s) == SubSeq(s, 1, Len(s) - 1)

(***************************************************************************)
(* get_photo_size.  Its result is a Variant<PhotoSize, string>; with it    *)
(* the model returns the calls made on the FileManager, in order.          *)
(***************************************************************************)
ReturnPhotoSize(res, made) ==
  [ret |-> [variant |-> "PhotoSize", photo_size |-> res, str |-> <<>>], calls |-> made]

ReturnString(str, made) ==
  [ret |-> [variant |-> "string", photo_size |-> PhotoSize0, str |-> str], calls |-> made]

(* The tag of a Plain, Cached or Progressive record. *)
resolve_type(type) ==
  IF Len(type) # 1 THEN 0
  ELSE IF At(type, 0) >= 128 THEN 0
  ELSE At(type, 0)

(* source.thumbnail().thumbnail_type = res.type, on a source of type Thumbnail. *)
set_thumbnail_type(source, type) ==
  IF source.type = "Thumbnail" THEN [source EXCEPT !.thumbnail_type = type] ELSE source

(* The part after the switch, with set_content called before register_photo_size. *)
finish_photo_size_content_first(a, type, res, content, file_id) ==
  LET res_type == resolve_type(type)
      source == set_thumbnail_type(a.source, res_type)
      registered == register_photo_size(source, a.id, a.access_hash, a.file_reference,
                                        a.owner_dialog_id, res.size, a.dc_id, a.format,
                                        file_id)
      result == [res EXCEPT !.type = res_type, !.file_id = registered.result]
  IN  ReturnPhotoSize(result,
        IF content # <<>>
          THEN << set_content(res.file_id, content), registered >>
          ELSE << registered >>)

(* The part after the switch: the tag, the source's thumbnail_type, the registration,
   the inline content. *)
finish_photo_size(a, type, res, content, file_id) ==
  LET res_type == resolve_type(type)
      source == set_thumbnail_type(a.source, res_type)
      registered == register_photo_size(source, a.id, a.access_hash, a.file_reference,
                                        a.owner_dialog_id, res.size, a.dc_id, a.format,
                                        file_id)
      result == [res EXCEPT !.type = res_type, !.file_id = registered.result]
  IN  ReturnPhotoSize(result,
        IF content # <<>>
          THEN << registered, set_content(result.file_id, content) >>
          ELSE << registered >>)

photoSize_case(a, file_id) ==
  LET size == a.size_ptr
      res == [PhotoSize0 EXCEPT !.dimensions = get_dimensions(size.w_, size.h_),
                                !.size = size.size_]
  IN  finish_photo_size(a, size.type_, res, <<>>, file_id)

photoCachedSize_case(a, file_id) ==
  LET size == a.size_ptr
      res == [PhotoSize0 EXCEPT !.dimensions = get_dimensions(size.w_, size.h_),
                                !.size = Len(size.bytes_)]
  IN  finish_photo_size(a, size.type_, res, size.bytes_, file_id)

photoStrippedSize_case_any_format(a) ==
  ReturnString(a.size_ptr.bytes_, <<>>)

photoStrippedSize_case(a) ==
  IF a.format # "Jpeg"
    THEN ReturnPhotoSize(PhotoSize0, <<>>)
    ELSE ReturnString(a.size_ptr.bytes_, <<>>)

photoSizeProgressive_case(a, file_id) ==
  LET size == a.size_ptr
  IN  IF size.sizes_ = <<>>
        THEN ReturnPhotoSize(PhotoSize0, <<>>)
        ELSE LET sorted == sort(size.sizes_)
                 res == [PhotoSize0 EXCEPT
                           !.dimensions = get_dimensions(size.w_, size.h_),
                           !.size = back(sorted),
                           !.progressive_sizes = pop_back(sorted)]
             IN  finish_photo_size(a, size.type_, res, <<>>, file_id)

photoPathSize_case(a) ==
  IF a.format # "Tgs" /\ a.format # "Webp" /\ a.format # "Webm"
    THEN ReturnPhotoSize(PhotoSize0, <<>>)
    ELSE ReturnString(a.size_ptr.bytes_, <<>>)

get_photo_size(a, file_id) ==
  CASE a.size_ptr.ID = "photoSizeEmpty"       -> ReturnPhotoSize(PhotoSize0, <<>>)
    [] a.size_ptr.ID = "photoSize"            -> photoSize_case(a, file_id)
    [] a.size_ptr.ID = "photoCachedSize"      -> photoCachedSize_case(a, file_id)
    [] a.size_ptr.ID = "photoStrippedSize"    -> photoStrippedSize_case(a)
    [] a.size_ptr.ID = "photoSizeProgressive" -> photoSizeProgressive_case(a, file_id)
    [] a.size_ptr.ID = "photoPathSize"        -> photoPathSize_case(a)

(***************************************************************************)
(* get_animation_size.  main_frame_timestamp is kept in the unit of the    *)
(* record's video_start_ts_; 0 is AnimationSize's default.                 *)
(***************************************************************************)
VIDEO_START_TS_MASK == 1

(* static_cast<uint8>(type_[0]); type_[0] of an empty std::string is '\0'. *)
first_byte(type) == IF type = <<>> THEN 0 ELSE At(type, 0)

animation_type_unchecked(type) == first_byte(type)

animation_type(type) ==
  IF first_byte(type) >= 128 THEN 0 ELSE first_byte(type)

get_animation_size(a, file_id) ==
  LET size == a.size
      res_type == animation_type(size.type_)
      source == set_thumbnail_type(a.source, res_type)
      registered == register_photo_size(source, a.id, a.access_hash, a.file_reference,
                                        a.owner_dialog_id, size.size_, a.dc_id, "Mpeg4",
                                        file_id)
  IN  [ret |-> [type |-> res_type,
                dimensions |-> get_dimensions(size.w_, size.h_),
                size |-> size.size_,
                file_id |-> registered.result,
                progressive_sizes |-> <<>>,
                main_frame_timestamp |->
                  IF size.flags_ % (2 * VIDEO_START_TS_MASK) >= VIDEO_START_TS_MASK
                    THEN size.video_start_ts_ ELSE 0],
       calls |-> << registered >>]

(***************************************************************************)
(* get_web_document_photo_size.  parse_url and the FileManager are outside *)
(* the file: `parsed` says whether parse_url succeeds, `resolved` whether  *)
(* from_persistent_id does, `file_id` is the FileId the FileManager gives. *)
(***************************************************************************)
CharDot == 46

contains_dot(url) == \E i \in 1..Len(url) : url[i] = CharDot

(* The loop over the attributes: the last documentAttributeImageSize decides. *)
RECURSIVE web_document_dimensions(_, _)
web_document_dimensions(attributes, dimensions) ==
  IF attributes = <<>> THEN dimensions
  ELSE LET attribute == Head(attributes)
       IN  web_document_dimensions(Tail(attributes),
             IF attribute.ID = "documentAttributeImageSize"
               THEN get_dimensions(attribute.w_, attribute.h_)
               ELSE dimensions)

(* After the switch: CHECK(file_id.is_valid()), the attributes, the PhotoSize. *)
web_document_result(a, file_id, made) ==
  LET web_document == a.web_document_ptr
      is_animation == web_document.mime_type_ = "video/mp4"
      is_gif == web_document.mime_type_ = "image/gif"
  IN  IF ~is_valid(file_id)
        THEN [status |-> "abort", ret |-> NoResult, calls |-> made]
        ELSE [status |-> "return",
              ret |-> [type |-> IF is_animation THEN 118
                                ELSE IF is_gif THEN 103
                                ELSE IF a.file_type = "Thumbnail" THEN CharT ELSE 110,
                       dimensions |-> web_document_dimensions(web_document.attributes_,
                                                              Dimensions0),
                       size |-> web_document.size_,
                       file_id |-> file_id,
                       progressive_sizes |-> <<>>],
              calls |-> made]

WebReturnEmpty(made) == [status |-> "return", ret |-> PhotoSize0, calls |-> made]

webDocument_case(a, parsed, file_id) ==
  LET web_document == a.web_document_ptr
      parse_call == [fn |-> "parse_url", url |-> web_document.url_, ok |-> parsed]
  IN  IF ~parsed
        THEN WebReturnEmpty(<< parse_call >>)
        ELSE web_document_result(a, file_id,
               << parse_call,
                  [fn |-> "register_remote",
                   location |-> [file_type |-> a.file_type,
                                 url |-> <<"get_url", web_document.url_>>,
                                 access_hash |-> web_document.access_hash_],
                   file_location_source |-> "FromServer",
                   owner_dialog_id |-> a.owner_dialog_id,
                   size |-> 0,
                   expected_size |-> web_document.size_,
                   name |-> <<"get_url_query_file_name", web_document.url_>>,
                   result |-> file_id] >>)

webDocumentNoProxy_case_unchecked(a, resolved, file_id) ==
  LET web_document == a.web_document_ptr
      resolve_call == [fn |-> "from_persistent_id", persistent_id |-> web_document.url_,
                       file_type |-> a.file_type, ok |-> resolved,
                       result |-> IF resolved THEN file_id ELSE 0]
  IN  IF ~resolved
        THEN WebReturnEmpty(<< resolve_call >>)
        ELSE web_document_result(a, file_id, << resolve_call >>)

webDocumentNoProxy_case(a, resolved, file_id) ==
  LET web_document == a.web_document_ptr
      resolve_call == [fn |-> "from_persistent_id", persistent_id |-> web_document.url_,
                       file_type |-> a.file_type, ok |-> resolved,
                       result |-> IF resolved THEN file_id ELSE 0]
  IN  IF ~contains_dot(web_document.url_)
        THEN WebReturnEmpty(<<>>)
        ELSE IF ~resolved
          THEN WebReturnEmpty(<< resolve_call >>)
          ELSE web_document_result(a, file_id, << resolve_call >>)

get_web_document_photo_size(a, answered, file_id) ==
  CASE a.web_document_ptr.ID = "nullptr"            -> WebReturnEmpty(<<>>)
    [] a.web_document_ptr.ID = "webDocument"        -> webDocument_case(a, answered, file_id)
    [] a.web_document_ptr.ID = "webDocumentNoProxy" -> webDocumentNoProxy_case(a, answered, file_id)

(***************************************************************************)
(* The arguments the functions are called with.                            *)
(***************************************************************************)
Int32Samples == {-2147483647 - 1, -1, 65534, 65535, 65536, 2147483647} \cup (0..MaxDimSample)

(* Dimensions as get_dimensions and the default constructor make them. *)
DimensionsSamples ==
  {Dimensions0, [width |-> 1, height |-> 2], [width |-> 2, height |-> 1],
   [width |-> 2, height |-> 2], [width |-> 65535, height |-> 65535]}

(* 0, 'n', 't' *)
TypeTags == {0, 110, CharT}

PhotoSizeSamples ==
  [type : TypeTags, dimensions : DimensionsSamples, size : 0..MaxSize,
   file_id : 0..MaxFileId, progressive_sizes : {<<>>, << 0 >>}]

ByteSamples == {0, 1, 20, 255}

PackedSamples == UNION {[1..n -> ByteSamples] : n \in 0..MaxPackedLen}

(* "", "t", "\x7f", "\x80", "tm" *)
TypeStrings == {<<>>, << 116 >>, << 127 >>, << 128 >>, << 116, 109 >>}

(* "", "v", "u", "a", "vv", "\xc8", "ab" *)
VideoTypeStrings ==
  {<<>>, << 118 >>, << 117 >>, << 97 >>, << 118, 118 >>, << 200 >>, << 97, 98 >>}

WireDimensions == {<< 3, 2 >>, << -1, 5 >>}

PhotoSizeSources ==
  {[type |-> "Thumbnail", file_type |-> "Thumbnail", thumbnail_type |-> 105],
   [type |-> "FullLegacy", file_type |-> "Photo", thumbnail_type |-> 0]}

DialogIds == {[type |-> "User"], [type |-> "SecretChat"]}

ScanSizes == UNION {[1..n -> 0..MaxScan] : n \in 0..MaxScans}

WireRecord(ID, type, wh, size, bytes, sizes) ==
  [ID |-> ID, type_ |-> type, w_ |-> wh[1], h_ |-> wh[2], size_ |-> size,
   bytes_ |-> bytes, sizes_ |-> sizes]

PhotoSizeRecords ==
  {WireRecord("photoSizeEmpty", <<>>, << 0, 0 >>, 0, <<>>, <<>>)}
  \cup {WireRecord("photoSize", t, wh, s, <<>>, <<>>) :
          t \in TypeStrings, wh \in WireDimensions, s \in {-1, 7}}
  \cup {WireRecord("photoCachedSize", t, wh, 0, b, <<>>) :
          t \in TypeStrings, wh \in WireDimensions, b \in {<<>>, << 9 >>, << 9, 8 >>}}
  \cup {WireRecord("photoStrippedSize", << 105 >>, << 0, 0 >>, 0, b, <<>>) :
          b \in {<<>>, << 1, 10, 20 >>}}
  \cup {WireRecord("photoSizeProgressive", t, wh, 0, <<>>, s) :
          t \in TypeStrings, wh \in WireDimensions, s \in ScanSizes}
  \cup {WireRecord("photoPathSize", << 106 >>, << 0, 0 >>, 0, b, <<>>) :
          b \in {<<>>, << 77, 48 >>}}

GetPhotoSizeArgs ==
  [fn : {"get_photo_size"}, source : PhotoSizeSources, id : {5}, access_hash : {11},
   file_reference : {<< 1 >>}, dc_id : {2}, owner_dialog_id : DialogIds,
   size_ptr : PhotoSizeRecords, format : PhotoFormat]

VideoSizeRecords ==
  [type_ : VideoTypeStrings, w_ : {3, 65536}, h_ : {2}, size_ : {7}, flags_ : {0, 1, 2},
   video_start_ts_ : {0, 15}]

GetAnimationSizeArgs ==
  [fn : {"get_animation_size"}, source : PhotoSizeSources, id : {5}, access_hash : {11},
   file_reference : {<< 1 >>}, dc_id : {2}, owner_dialog_id : {[type |-> "User"]},
   size : VideoSizeRecords]

ImageSize(w, h) == [ID |-> "documentAttributeImageSize", w_ |-> w, h_ |-> h]

OtherAttribute(ID) == [ID |-> ID, w_ |-> 0, h_ |-> 0]

AttributeLists ==
  {<<>>,
   << ImageSize(3, 2) >>,
   << ImageSize(70000, 2) >>,
   << OtherAttribute("documentAttributeAnimated"), ImageSize(3, 2) >>,
   << OtherAttribute("documentAttributeFilename") >>,
   << ImageSize(3, 2), ImageSize(4, 5) >>}

(* "", "a", "a.b", "." *)
UrlSamples == {<<>>, << 97 >>, << 97, 46, 98 >>, << 46 >>}

WebDocuments ==
  {[ID |-> "nullptr", url_ |-> <<>>, access_hash_ |-> 0, size_ |-> 0, mime_type_ |-> "",
    attributes_ |-> <<>>]}
  \cup [ID : {"webDocument", "webDocumentNoProxy"}, url_ : UrlSamples, access_hash_ : {11},
        size_ : {7}, mime_type_ : {"video/mp4", "image/gif", "image/jpeg"},
        attributes_ : AttributeLists]

GetWebDocumentPhotoSizeArgs ==
  [fn : {"get_web_document_photo_size"}, file_type : {"Thumbnail", "Photo"},
   owner_dialog_id : {[type |-> "User"]}, web_document_ptr : WebDocuments]

(* What FileManager::register_remote and from_persistent_id may answer: any FileId,
   the invalid one (0) included. *)
RegistrarAnswers == 0..MaxHandle

(***************************************************************************)
(* The calls.                                                              *)
(***************************************************************************)
Called(argset) ==
  /\ pc = "call"
  /\ args \in argset
  /\ ret = NoResult
  /\ calls = <<>>

CallGetDimensions ==
  /\ pc = "call"
  /\ args.fn = "get_dimensions"
  /\ pc' = "done"
  /\ ret' = get_dimensions(args.width, args.height)
  /\ UNCHANGED <<args, calls>>

CallCompare ==
  /\ pc = "call"
  /\ args.fn = "compare"
  /\ pc' = "done"
  /\ ret' = [less    |-> PhotoSizeLess(args.lhs, args.rhs),
             greater |-> PhotoSizeLess(args.rhs, args.lhs),
             equal   |-> PhotoSizeEq(args.lhs, args.rhs)]
  /\ UNCHANGED <<args, calls>>

CallGetMinithumbnailObject ==
  /\ pc = "call"
  /\ args.fn = "get_minithumbnail_object"
  /\ pc' = "done"
  /\ ret' = get_minithumbnail_object(args.packed)
  /\ UNCHANGED <<args, calls>>

CallGetPhotoSize ==
  /\ pc = "call"
  /\ args.fn = "get_photo_size"
  /\ \E file_id \in RegistrarAnswers :
       LET r == get_photo_size(args, file_id)
       IN  /\ pc' = "done"
           /\ ret' = r.ret
           /\ calls' = r.calls
  /\ UNCHANGED args

CallGetAnimationSize ==
  /\ pc = "call"
  /\ args.fn = "get_animation_size"
  /\ \E file_id \in RegistrarAnswers :
       LET r == get_animation_size(args, file_id)
       IN  /\ pc' = "done"
           /\ ret' = r.ret
           /\ calls' = r.calls
  /\ UNCHANGED args

CallGetWebDocumentPhotoSize ==
  /\ pc = "call"
  /\ args.fn = "get_web_document_photo_size"
  /\ \E answered \in BOOLEAN, file_id \in RegistrarAnswers :
       LET r == get_web_document_photo_size(args, answered, file_id)
       IN  /\ pc' = IF r.status = "abort" THEN "abort" ELSE "done"
           /\ ret' = r.ret
           /\ calls' = r.calls
  /\ UNCHANGED args

(***************************************************************************)
(* Specifications: the decoders, and one per pure function.                *)
(***************************************************************************)
Init ==
  \/ Called(GetPhotoSizeArgs)
  \/ Called(GetAnimationSizeArgs)
  \/ Called(GetWebDocumentPhotoSizeArgs)

Next ==
  \/ CallGetPhotoSize
  \/ CallGetAnimationSize
  \/ CallGetWebDocumentPhotoSize

Spec == Init /\ [][Next]_vars

InitDim == Called([fn : {"get_dimensions"}, width : Int32Samples, height : Int32Samples])

NextDim == CallGetDimensions

SpecDim == InitDim /\ [][NextDim]_vars

InitCmp == Called([fn : {"compare"}, lhs : PhotoSizeSamples, rhs : PhotoSizeSamples])

NextCmp == CallCompare

SpecCmp == InitCmp /\ [][NextCmp]_vars

InitMini == Called([fn : {"get_minithumbnail_object"}, packed : PackedSamples])

NextMini == CallGetMinithumbnailObject

SpecMini == InitMini /\ [][NextMini]_vars

(***************************************************************************)
(* Properties.                                                             *)
(***************************************************************************)
Returned(fn) == pc = "done" /\ args.fn = fn

EmptyPhotoSize ==
  [type |-> 0, dimensions |-> [width |-> 0, height |-> 0], size |-> 0, file_id |-> 0,
   progressive_sizes |-> <<>>]

NoCallOf(fn) == \A i \in 1..Len(calls) : calls[i].fn # fn

(* C1: get_dimensions returns (w, h) unchanged when both w and h are in 1..65535, and
   (0, 0) in every other case; the result never has exactly one zero field. *)
C1_GetDimensions ==
  Returned("get_dimensions") =>
    /\ ret = IF args.width \in 1..65535 /\ args.height \in 1..65535
               THEN [width |-> args.width, height |-> args.height]
               ELSE [width |-> 0, height |-> 0]
    /\ (ret.width = 0) <=> (ret.height = 0)

C1_Witness ==
  /\ Returned("get_dimensions")
  /\ args.width = 65535 /\ args.height = 1
  /\ ret = [width |-> 65535, height |-> 1]

(* The key tuple of a descriptor: size, width*height (two base-65536 digits), the tag
   with 't' as -1, the file handle, the width. *)
KeyOf(p) ==
  << p.size,
     WideMul(p.dimensions.width, p.dimensions.height)[1],
     WideMul(p.dimensions.width, p.dimensions.height)[2],
     IF p.type = 116 THEN -1 ELSE p.type,
     p.file_id,
     p.dimensions.width >>

LexLess(k1, k2) ==
  \E i \in 1..Len(k1) : k1[i] < k2[i] /\ \A j \in 1..(i - 1) : k1[j] = k2[j]

(* C2: operator<(a, b) is the lexicographic comparison of the keys (size, width*height,
   tag', file handle, width), tag' being -1 for the tag 't'; so with equal size and pixel
   count a descriptor tagged 't' sorts before one with any other tag. *)
C2_LexicographicKeys ==
  Returned("compare") =>
    /\ ret.less = LexLess(KeyOf(args.lhs), KeyOf(args.rhs))
    /\ ret.greater = LexLess(KeyOf(args.rhs), KeyOf(args.lhs))
    /\ ( /\ args.lhs.type = 116 /\ args.rhs.type # 116
         /\ args.lhs.size = args.rhs.size
         /\ WideMul(args.lhs.dimensions.width, args.lhs.dimensions.height)
              = WideMul(args.rhs.dimensions.width, args.rhs.dimensions.height) )
       => ret.less

C2_Witness ==
  /\ Returned("compare")
  /\ args.lhs.type = 116 /\ args.rhs.type = 110
  /\ args.lhs.size = args.rhs.size
  /\ args.lhs.dimensions = [width |-> 1, height |-> 2]
  /\ args.rhs.dimensions = [width |-> 2, height |-> 1]
  /\ args.lhs.file_id > args.rhs.file_id
  /\ ret.less /\ ~ret.greater

(* C3: operator< is transitive (a<b and b<c imply a<c), never holds both ways, and
   never holds of a descriptor and itself. *)
C3_StrictOrder ==
  Returned("compare") =>
    /\ ~(ret.less /\ ret.greater)
    /\ ~PhotoSizeLess(args.lhs, args.lhs)
    /\ \A c \in PhotoSizeSamples :
         (ret.less /\ PhotoSizeLess(args.rhs, c)) => PhotoSizeLess(args.lhs, c)

C3_Witness ==
  /\ Returned("compare")
  /\ ret.less
  /\ \E c \in PhotoSizeSamples :
       /\ PhotoSizeLess(args.rhs, c)
       /\ PhotoSizeLess(args.lhs, c)
       /\ c.size = args.lhs.size
       /\ c.file_id # args.rhs.file_id

(* C4 as stated: exactly one of a<b, b<a, a==b holds. *)
C4_TotalOnEquality ==
  Returned("compare") =>
    \/ ( ret.less /\ ~ret.greater /\ ~ret.equal)
    \/ (~ret.less /\  ret.greater /\ ~ret.equal)
    \/ (~ret.less /\ ~ret.greater /\  ret.equal)

(* C4, amended: exactly one of a<b, b<a, "a and b have the same type, dimensions, size
   and file handle" holds; a==b implies the last; progressive_sizes is not compared. *)
C4_TotalUpToScanSizes ==
  Returned("compare") =>
    LET same == /\ args.lhs.type = args.rhs.type
                /\ args.lhs.dimensions = args.rhs.dimensions
                /\ args.lhs.size = args.rhs.size
                /\ args.lhs.file_id = args.rhs.file_id
    IN  /\ \/ ( ret.less /\ ~ret.greater /\ ~same)
           \/ (~ret.less /\  ret.greater /\ ~same)
           \/ (~ret.less /\ ~ret.greater /\  same)
        /\ ret.equal => same
        /\ ret.equal <=> (same /\ args.lhs.progressive_sizes = args.rhs.progressive_sizes)

C4_Witness ==
  /\ Returned("compare")
  /\ args.lhs.progressive_sizes # args.rhs.progressive_sizes
  /\ [args.lhs EXCEPT !.progressive_sizes = <<>>] = [args.rhs EXCEPT !.progressive_sizes = <<>>]
  /\ ~ret.less /\ ~ret.greater /\ ~ret.equal

CountIn(s, x) == Cardinality({i \in 1..Len(s) : s[i] = x})

(* C5: a Progressive record with a non-empty scan list S decodes to a descriptor whose
   size is the maximum of S and whose progressive_sizes is ascending, of length |S|-1,
   and with size appended a permutation of S. *)
C5_ProgressiveSizes ==
  ( /\ Returned("get_photo_size")
    /\ args.size_ptr.ID = "photoSizeProgressive"
    /\ args.size_ptr.sizes_ # <<>> ) =>
    LET S == args.size_ptr.sizes_
        res == ret.photo_size
        P == res.progressive_sizes
        all == P \o << res.size >>
    IN  /\ ret.variant = "PhotoSize"
        /\ \E i \in 1..Len(S) : S[i] = res.size
        /\ \A i \in 1..Len(S) : S[i] <= res.size
        /\ Len(P) = Len(S) - 1
        /\ \A i \in 1..(Len(P) - 1) : P[i] <= P[i + 1]
        /\ \A i \in 1..Len(S) : CountIn(all, S[i]) = CountIn(S, S[i])
        /\ \A i \in 1..Len(all) : CountIn(S, all[i]) = CountIn(all, all[i])

C5_Witness ==
  /\ Returned("get_photo_size")
  /\ args.size_ptr.ID = "photoSizeProgressive"
  /\ args.size_ptr.sizes_ = << 1, 0, 1 >>
  /\ ret.photo_size.size = 1
  /\ ret.photo_size.progressive_sizes = << 0, 1 >>

(* C6: an Empty record, a Stripped record under a format other than Jpeg, a Vector-path
   record under a format not in {Tgs, Webp, Webm} and a Progressive record with no scan
   sizes each return the empty descriptor and make no call on the registrar. *)
C6_EmptyResults ==
  ( /\ Returned("get_photo_size")
    /\ \/ args.size_ptr.ID = "photoSizeEmpty"
       \/ args.size_ptr.ID = "photoStrippedSize" /\ args.format # "Jpeg"
       \/ args.size_ptr.ID = "photoPathSize" /\ args.format \notin {"Tgs", "Webp", "Webm"}
       \/ args.size_ptr.ID = "photoSizeProgressive" /\ args.size_ptr.sizes_ = <<>> ) =>
    /\ ret.variant = "PhotoSize"
    /\ ret.photo_size = EmptyPhotoSize
    /\ calls = <<>>

C6_Witness ==
  /\ Returned("get_photo_size")
  /\ args.size_ptr.ID = "photoStrippedSize"
  /\ args.size_ptr.bytes_ # <<>>
  /\ args.format = "Webp"
  /\ ret.variant = "PhotoSize"
  /\ ret.photo_size = EmptyPhotoSize
  /\ calls = <<>>

(* C7: get_minithumbnail_object returns nothing when the packed string is shorter than
   3 bytes or its first byte is not 1; otherwise height = p[1], width = p[2] and data =
   header[0..163] ++ p[1] ++ header[165] ++ p[2] ++ header[167..] ++ p[3..] ++ footer, of
   length |header| + |p| - 3 + |footer|, which differs from header ++ p[3..] ++ footer at
   the offsets 164 and 166 only. *)
C7_Minithumbnail ==
  Returned("get_minithumbnail_object") =>
    LET p == args.packed
        plain == header \o SubSeq(p, 4, Len(p)) \o footer
    IN  IF Len(p) < 3 \/ p[1] # 1
          THEN ret.is_null
          ELSE /\ ~ret.is_null
               /\ ret.height_ = p[2] /\ ret.height_ \in 0..255
               /\ ret.width_ = p[3] /\ ret.width_ \in 0..255
               /\ ret.data_ = SubSeq(header, 1, 164) \o << p[2] >> \o << header[166] >>
                              \o << p[3] >> \o SubSeq(header, 168, Len(header))
                              \o SubSeq(p, 4, Len(p)) \o footer
               /\ Len(ret.data_) = Len(header) + Len(p) - 3 + Len(footer)
               /\ ret.data_[165] = p[2]
               /\ ret.data_[167] = p[3]
               /\ \A i \in 1..Len(plain) : i \notin {165, 167} => ret.data_[i] = plain[i]

C7_Witness ==
  /\ Returned("get_minithumbnail_object")
  /\ args.packed = << 1, 20, 255, 0 >>
  /\ ~ret.is_null
  /\ ret.height_ = 20 /\ ret.width_ = 255
  /\ Len(ret.data_) = 626

(* C8 as stated: a tag other than exactly "v" or "u" gives type 0; "v" and "u" give
   that character. *)
C8_TagCoercedToZero ==
  Returned("get_animation_size") =>
    IF args.size.type_ \in {<< 118 >>, << 117 >>}
      THEN ret.type = args.size.type_[1]
      ELSE ret.type = 0

(* C8, amended: get_animation_size always returns; the returned type is the first byte
   of the tag when that byte is below 128 (so "v" and "u" give that character, and any
   other tag is kept too), and 0 when the tag is empty or its first byte is 128 or more. *)
C8_TagIsFirstByte ==
  /\ (pc = "call" /\ args.fn = "get_animation_size") => ENABLED CallGetAnimationSize
  /\ Returned("get_animation_size") =>
       LET t == args.size.type_
       IN  ret.type = IF t # <<>> /\ t[1] < 128 THEN t[1] ELSE 0

C8_Witness ==
  /\ Returned("get_animation_size")
  /\ args.size.type_ = << 97, 98 >>
  /\ ret.type = 97

(* C9: get_web_document_photo_size returns the empty descriptor and never calls
   register when the URL of a Direct-URL record fails to parse, when the reference of a
   no-proxy record has no '.', and when its persistent id does not resolve; without a
   '.' the resolver is not called either.  In every other case of a record the
   returned descriptor has a valid file handle. *)
C9_WebDocumentFailures ==
  Returned("get_web_document_photo_size") =>
    LET doc == args.web_document_ptr
        parse_failed == /\ doc.ID = "webDocument"
                        /\ \E i \in 1..Len(calls) : calls[i].fn = "parse_url" /\ ~calls[i].ok
        no_dot == /\ doc.ID = "webDocumentNoProxy"
                  /\ \A i \in 1..Len(doc.url_) : doc.url_[i] # 46
        unresolved == /\ doc.ID = "webDocumentNoProxy"
                      /\ \E i \in 1..Len(calls) :
                           calls[i].fn = "from_persistent_id" /\ ~calls[i].ok
        failure == parse_failed \/ no_dot \/ unresolved
    IN  /\ failure => (ret = EmptyPhotoSize /\ NoCallOf("register_remote"))
        /\ no_dot => calls = <<>>
        /\ (doc.ID = "webDocumentNoProxy" /\ ~no_dot) =>
             (Len(calls) = 1 /\ calls[1].fn = "from_persistent_id")
        /\ (doc.ID = "webDocument") => (Len(calls) >= 1 /\ calls[1].fn = "parse_url")
        /\ (doc.ID # "nullptr" /\ ~failure) => ret.file_id > 0

C9_Witness ==
  /\ Returned("get_web_document_photo_size")
  /\ args.web_document_ptr.ID = "webDocumentNoProxy"
  /\ args.web_document_ptr.url_ = << 97 >>
  /\ ret = EmptyPhotoSize
  /\ calls = <<>>

(* C10: for a Plain, Cached-inline or non-empty Progressive record get_photo_size
   resolves the tag (a type string that is not one byte below 128 gives 0), sets the
   thumbnail_type of a source of thumbnail kind to it, then calls register exactly once
   with that source and the descriptor's size, and only afterwards, exactly when the
   record is Cached-inline with a non-empty buffer, calls set_content once with the
   handle register returned and the record's bytes. *)
C10_EffectOrder ==
  ( /\ Returned("get_photo_size")
    /\ \/ args.size_ptr.ID \in {"photoSize", "photoCachedSize"}
       \/ args.size_ptr.ID = "photoSizeProgressive" /\ args.size_ptr.sizes_ # <<>> ) =>
    LET t == args.size_ptr.type_
        tag == IF Len(t) = 1 /\ t[1] < 128 THEN t[1] ELSE 0
        updated == IF args.source.type = "Thumbnail"
                     THEN [type |-> "Thumbnail", file_type |-> args.source.file_type,
                           thumbnail_type |-> tag]
                     ELSE args.source
        cached == args.size_ptr.ID = "photoCachedSize" /\ args.size_ptr.bytes_ # <<>>
    IN  /\ ret.variant = "PhotoSize"
        /\ ret.photo_size.type = tag
        /\ Len(calls) = IF cached THEN 2 ELSE 1
        /\ calls[1].fn = "register_remote"
        /\ calls[1].location.source = updated
        /\ calls[1].size = ret.photo_size.size
        /\ ret.photo_size.file_id = calls[1].result
        /\ cached => /\ calls[2].fn = "set_content"
                     /\ calls[2].file_id = calls[1].result
                     /\ calls[2].bytes = args.size_ptr.bytes_

C10_Witness ==
  /\ Returned("get_photo_size")
  /\ args.size_ptr.ID = "photoCachedSize"
  /\ args.size_ptr.bytes_ = << 9, 8 >>
  /\ args.size_ptr.type_ = << 116 >>
  /\ args.source.type = "Thumbnail"
  /\ Len(calls) = 2
  /\ calls[1].fn = "register_remote"
  /\ calls[1].location.source.thumbnail_type = 116
  /\ calls[1].result = 2
  /\ calls[2].fn = "set_content"
  /\ calls[2].file_id = 2

====
